---- MODULE Spec2Model ----
(***************************************************************************)
(* KnightTourSolver (src/KnightTourSolver.py): Warnsdorff fill, path       *)
(* reversal ("reroute"), rank by breadth-first search and the generation   *)
(* loop of solve, as a state machine.                                      *)
(*                                                                         *)
(* A position is a pair <<r, c>>; Python's None is NoneVal (the empty      *)
(* tuple).  A board is a function from the squares of the N x N grid to    *)
(* the visit numbers.  Boards are objects: heap maps an object id to a     *)
(* board, so that two names for one board (aliasing) can be told from two  *)
(* equal boards.  Python's list indexing accepts -N..N-1 and counts a      *)
(* negative index from the end.                                            *)
(***************************************************************************)
EXTENDS Integers, Sequences, FiniteSets, TLC

\* ------------------------------------------------------------------ bounds
\* Board sizes 1..MaxN are run from every start of StartRange.
MaxN == 7
\* The generation counter i of solve stops at MaxGen while Trials remain.
MaxGen == 3
\* The level counter d of shortest_path_length saturates at MaxDist.
MaxDist == 10
\* verify alone is applied to boards of VerifyN x VerifyN squares holding the
\* values 0..VerifyMaxVal on at most VerifyMaxFilled non-zero squares.
VerifyN == 4
VerifyMaxVal == 3
VerifyMaxFilled == 3
\* shortest_path_length alone is called on boards of 1..DistN squares a side.
DistN == 6
\* The reversal of reroute alone is applied to the knight paths of at most
\* RevLen squares on boards of 3..RevN squares a side.
RevN == 4
RevLen == 5

\* ------------------------------------------------------- program constants
\* example_8x8_with_rerouting.py: SIZE and the origin.
ExampleSize == 8
ExampleRow == 3
ExampleCol == 2
\* math.inf, the rank of a board without an empty square.
Inf == -1

NoneVal == <<>>

VARIABLES
    size,           \* self.size
    start,          \* <<start_r, start_c>> given to solve
    pc,             \* position in solve
    heap,           \* object id -> board, for the boards that are still referenced
    nextId,         \* next unused object id
    fb,             \* wandorf_fill: id of brd
    fpos,           \* wandorf_fill: <<r, c>>
    num,            \* wandorf_fill: num
    fill_ret,       \* which call of wandorf_fill is running: "first" or "resumed"
    las,            \* value returned by the latest wandorf_fill (las / deg1_last)
    boards,         \* solve: boards, a sequence of Trials <<id, last>>
    reroutes,       \* solve: reroutes, the next generation's Trials
    i,              \* solve: i
    reroute_count,  \* solve: reroute_count
    ti,             \* index in boards of the Trial being processed
    ends,           \* reroute: possible_ends
    ei,             \* reroute: index of end in possible_ends
    cur,            \* reroute: <<id of b, end>> of the candidate being built
    rk_last,        \* get_rank: last
    rk_fields,      \* get_rank: empty_fields
    rk_i,           \* get_rank: index of field in empty_fields
    rk_min,         \* get_rank: min_d
    checked,        \* shortest_path_length: checked
    d,              \* shortest_path_length: d
    rank,           \* rerouted[2], the rank yielded with the candidate
    verdict,        \* the value returned by the latest call of verify, or "none"
    result,         \* the dictionary returned by solve
    exc,            \* the exception that ended the call, or "none"
    x1y1,           \* shortest_path_length: <<x1, y1>>, the origin
    x2y2,           \* shortest_path_length: <<x2, y2>>, the destination
    ret             \* the values returned by the calls of shortest_path_length so far

vars == <<size, start, pc, heap, nextId, fb, fpos, num, fill_ret, las, boards,
          reroutes, i, reroute_count, ti, ends, ei, cur, rk_last, rk_fields,
          rk_i, rk_min, checked, d, rank, verdict, result, exc, x1y1, x2y2, ret>>

fillVars == <<fb, fpos, num, fill_ret, las>>
loopVars == <<boards, reroutes, i, reroute_count, ti>>
genVars == <<ends, ei, cur>>
rankVars == <<rk_last, rk_fields, rk_i, rk_min, checked, d, rank>>
splVars == <<x1y1, x2y2, ret>>

\* ------------------------------------------------------------ board model
Squares(n) == (0 .. n - 1) \X (0 .. n - 1)

\* create_empty_board
EmptyBoard(n) == [s \in Squares(n) |-> 0]

\* Python list indexing: an index in -n..n-1 is accepted, a negative one counts
\* from the end; any other index raises IndexError.
Indexable(n, p) == /\ p[1] >= 0 - n /\ p[1] < n
                   /\ p[2] >= 0 - n /\ p[2] < n

Wrap(n, k) == IF k < 0 THEN k + n ELSE k

Norm(n, p) == <<Wrap(n, p[1]), Wrap(n, p[2])>>

\* brd[r][c]
Cell(n, brd, p) == brd[Norm(n, p)]

\* brd[r][c] = v
SetCell(n, brd, p, v) == [brd EXCEPT ![Norm(n, p)] = v]

\* the squares in the order of the nested loops over r and c
RowMajor(n) == [k \in 1 .. n * n |-> <<(k - 1) \div n, (k - 1) % n>>]

\* ---------------------------------------------------------- move generator
\* mutant of deltas: the offset (1, 2) is missing, so a move may have no
\* opposite move
DeltasOneMissing == << <<-1, 2>>, <<-2, 1>>, <<-2, -1>>, <<-1, -2>>,
                       <<1, -2>>, <<2, -1>>, <<2, 1>> >>

deltas == << <<-1, 2>>, <<-2, 1>>, <<-2, -1>>, <<-1, -2>>,
             <<1, -2>>, <<2, -1>>, <<2, 1>>, <<1, 2>> >>

InGrid(n, f) == /\ 0 <= f[1] /\ f[1] < n
                /\ 0 <= f[2] /\ f[2] < n

get_accessible_fields(n, p) ==
    LET all == [k \in 1 .. Len(deltas) |-> <<p[1] + deltas[k][1], p[2] + deltas[k][2]>>]
    IN  SelectSeq(all, LAMBDA f : InGrid(n, f))

get_possible_jumps(n, brd, p) ==
    SelectSeq(get_accessible_fields(n, p), LAMBDA f : brd[f] = 0)

Range(s) == {s[k] : k \in 1 .. Len(s)}

\* -------------------------------------------------------- heuristic filler
\* mutant of BestJumpFrom: "deg <= best_deg", so the last jump of smallest
\* degree wins a tie
RECURSIVE BestJumpLastFrom(_, _, _, _, _, _)
BestJumpLastFrom(n, brd, jumps, k, best_deg, best_jump) ==
    IF k > Len(jumps) THEN best_jump
    ELSE LET deg == Len(get_possible_jumps(n, brd, jumps[k]))
         IN  IF deg <= best_deg
             THEN BestJumpLastFrom(n, brd, jumps, k + 1, deg, jumps[k])
             ELSE BestJumpLastFrom(n, brd, jumps, k + 1, best_deg, best_jump)

\* mutant of BestJump: the comparison is turned round, the jump of largest
\* degree is taken
RECURSIVE BestJumpMaxFrom(_, _, _, _, _, _)
BestJumpMaxFrom(n, brd, jumps, k, best_deg, best_jump) ==
    IF k > Len(jumps) THEN best_jump
    ELSE LET deg == Len(get_possible_jumps(n, brd, jumps[k]))
         IN  IF deg > best_deg
             THEN BestJumpMaxFrom(n, brd, jumps, k + 1, deg, jumps[k])
             ELSE BestJumpMaxFrom(n, brd, jumps, k + 1, best_deg, best_jump)

BestJumpMax(n, brd, jumps) == BestJumpMaxFrom(n, brd, jumps, 1, 0 - 1, <<0, 0>>)

\* The loop of wandorf_fill over jumps: the first jump of strictly smallest
\* degree, from best_deg, best_jump = 9, (0, 0).
RECURSIVE BestJumpFrom(_, _, _, _, _, _)
BestJumpFrom(n, brd, jumps, k, best_deg, best_jump) ==
    IF k > Len(jumps) THEN best_jump
    ELSE LET deg == Len(get_possible_jumps(n, brd, jumps[k]))
         IN  IF deg < best_deg
             THEN BestJumpFrom(n, brd, jumps, k + 1, deg, jumps[k])
             ELSE BestJumpFrom(n, brd, jumps, k + 1, best_deg, best_jump)

BestJump(n, brd, jumps) == BestJumpFrom(n, brd, jumps, 1, 9, <<0, 0>>)

\* ----------------------------------------------------------- path navigator
FirstWith(fields, brd, v) ==
    LET hits == SelectSeq(fields, LAMBDA f : brd[f] = v)
    IN  IF Len(hits) = 0 THEN NoneVal ELSE hits[1]

get_next(n, brd, p) == FirstWith(get_accessible_fields(n, p), brd, Cell(n, brd, p) + 1)

get_prev(n, brd, p) == FirstWith(get_accessible_fields(n, p), brd, Cell(n, brd, p) - 1)

find(n, brd, v) == FirstWith(RowMajor(n), brd, v)

\* get_max: the scan keeps the first square of the largest value, from m, mr, mc = 0, 0, 0
RECURSIVE GetMaxFrom(_, _, _, _, _)
GetMaxFrom(n, brd, k, m, mp) ==
    IF k > n * n THEN mp
    ELSE LET f == RowMajor(n)[k]
         IN  IF brd[f] > m THEN GetMaxFrom(n, brd, k + 1, brd[f], f)
                           ELSE GetMaxFrom(n, brd, k + 1, m, mp)

get_max(n, brd) == GetMaxFrom(n, brd, 1, 0, <<0, 0>>)

\* ------------------------------------------------------------------ verifier
\* The while loop of verify from square p with counter k.  Unpacking a None
\* returned by get_next raises TypeError.
RECURSIVE VerifyWalk(_, _, _, _, _)
VerifyWalk(n, brd, p, k, m) ==
    IF Cell(n, brd, p) < Cell(n, brd, m)
    THEN LET nx == get_next(n, brd, p)
         IN  IF nx = NoneVal THEN "TypeError"
             ELSE IF brd[nx] # k THEN "False"
             ELSE VerifyWalk(n, brd, nx, k + 1, m)
    ELSE "True"

\* verify: "True", "False", or "TypeError" when find or get_next gives None
verify(n, brd) ==
    LET one == find(n, brd, 1)
    IN  IF one = NoneVal THEN "TypeError"
        ELSE VerifyWalk(n, brd, one, 2, get_max(n, brd))

\* ------------------------------------------------------------------ rerouter
\* possible_ends of reroute: the successor of every accessible field of last
possible_ends(n, brd, last) ==
    LET acc == get_accessible_fields(n, last)
    IN  [k \in 1 .. Len(acc) |-> get_next(n, brd, acc[k])]

\* mutant of WalkSteps: the "+ 1" is missing
WalkStepsShort(n, brd, end, last) == (Cell(n, brd, last) - Cell(n, brd, end)) \div 2

\* The number of passes of the reversal loop: range((b[last] - b[end]) // 2 + 1);
\* a negative count gives an empty range.
WalkSteps(n, brd, end, last) == ((Cell(n, brd, last) - Cell(n, brd, end)) \div 2) + 1

\* mutant of Walk: the two assignments of the swap are made one after the other
\* (b[f1] = b[f2]; b[f2] = b[f1]), so the value of f1 is lost
RECURSIVE WalkSequential(_, _, _, _, _)
WalkSequential(n, b, f1, f2, k) ==
    IF k <= 0 THEN [err |-> FALSE, board |-> b]
    ELSE IF f1 = NoneVal \/ f2 = NoneVal THEN [err |-> TRUE]
    ELSE LET next_f1 == get_next(n, b, f1)
             next_f2 == get_prev(n, b, f2)
             assigned == SetCell(n, b, f1, Cell(n, b, f2))
         IN  WalkSequential(n, assigned, next_f1, next_f2, k - 1)

\* The reversal loop of reroute on the copy b, with k passes left.  Passing a
\* None cursor to get_next or get_prev raises TypeError.  The value is
\* [err |-> FALSE, board |-> the board after the loop] or [err |-> TRUE].
RECURSIVE Walk(_, _, _, _, _)
Walk(n, b, f1, f2, k) ==
    IF k <= 0 THEN [err |-> FALSE, board |-> b]
    ELSE IF f1 = NoneVal \/ f2 = NoneVal THEN [err |-> TRUE]
    ELSE LET next_f1 == get_next(n, b, f1)
             next_f2 == get_prev(n, b, f2)
             v1 == Cell(n, b, f1)
             v2 == Cell(n, b, f2)
             swapped == SetCell(n, SetCell(n, b, f1, v2), f2, v1)
         IN  Walk(n, swapped, next_f1, next_f2, k - 1)

\* The board reroute builds for end: a copy of brd, reversed between end and
\* last.  Indexing b with end = None raises TypeError.
Rerouted(n, brd, end, last) ==
    IF end = NoneVal THEN [err |-> TRUE]
    ELSE Walk(n, brd, end, last, WalkSteps(n, brd, end, last))

\* --------------------------------------------------------------------- rank
\* empty_fields of get_rank
empty_fields(n, brd) == SelectSeq(RowMajor(n), LAMBDA f : brd[f] = 0)

\* mutant of MinRank: "min_d = d", the distance of the last empty field
MinRankLatest(dd, m) == dd

\* min(d, min_d), with min_d possibly math.inf
MinRank(dd, m) == IF m = Inf \/ dd < m THEN dd ELSE m

\* one pass of the while loop of shortest_path_length that does not return
Expand(n, ch) == UNION {Range(get_accessible_fields(n, c)) : c \in ch}

\* ------------------------------------------------------------------ objects
\* heap with object id bound to board (a new object, or a write to an old one)
PutBoard(h, id, board) == [k \in DOMAIN h \cup {id} |-> IF k = id THEN board ELSE h[k]]

\* mutant of NewBoardId: b = brd, no copy is made
AliasedBoardId(brd) == brd

\* b = deepcopy(brd): the copy is a new object
NewBoardId(brd) == nextId

\* the ids of the boards of a list of Trials
TrialIds(trials) == {trials[k][1] : k \in 1 .. Len(trials)}

NoResult == [board |-> 0, iterations |-> 0, reroutes |-> 0]

\* ------------------------------------------------------------ initial state
StartRange(n) == (0 - 1) .. n

InitWith(n, st, at, brd) ==
    /\ size = n
    /\ start = st
    /\ pc = at
    /\ heap = (1 :> brd)
    /\ nextId = 2
    /\ fb = 0
    /\ fpos = <<0, 0>>
    /\ num = 0
    /\ fill_ret = "none"
    /\ las = NoneVal
    /\ boards = <<>>
    /\ reroutes = <<>>
    /\ i = 0
    /\ reroute_count = 0
    /\ ti = 0
    /\ ends = <<>>
    /\ ei = 0
    /\ cur = <<>>
    /\ rk_last = <<0, 0>>
    /\ rk_fields = <<>>
    /\ rk_i = 0
    /\ rk_min = Inf
    /\ checked = {}
    /\ d = 0
    /\ rank = Inf
    /\ verdict = "none"
    /\ result = NoResult
    /\ exc = "none"
    /\ x1y1 = <<0, 0>>
    /\ x2y2 = <<0, 0>>
    /\ ret = <<>>

\* solve on an empty board of every size up to MaxN, from every start of
\* StartRange (the squares of the board and one step around it), and the run
\* of example_8x8_with_rerouting.py
Inputs ==
    {<<n, r, c>> : n \in 1 .. MaxN, r \in StartRange(MaxN), c \in StartRange(MaxN)}
        \cup {<<ExampleSize, ExampleRow, ExampleCol>>}

Init ==
    \E in \in Inputs :
        /\ in[2] \in StartRange(in[1])
        /\ in[3] \in StartRange(in[1])
        /\ InitWith(in[1], <<in[2], in[3]>>, "solve", EmptyBoard(in[1]))

\* ------------------------------------------------------------------ actions
Raise(e) ==
    /\ pc' = "raised"
    /\ exc' = e

\* solve, lines 231-235: the call of wandorf_fill(board, start_r, start_c)
SolveCall ==
    /\ pc = "solve"
    /\ pc' = "fill"
    /\ fb' = 1
    /\ fpos' = start
    /\ num' = 1
    /\ fill_ret' = "first"
    /\ UNCHANGED <<size, start, splVars, heap, nextId, las, loopVars, genVars, rankVars,
                   verdict, result, exc>>

\* one pass of the while loop of wandorf_fill
FillStep ==
    /\ pc = "fill"
    /\ IF ~Indexable(size, fpos)
       THEN /\ Raise("IndexError")
            /\ UNCHANGED <<heap, fpos, num, las>>
       ELSE LET b1 == SetCell(size, heap[fb], fpos, num)
                jumps == get_possible_jumps(size, b1, fpos)
            IN  /\ heap' = [heap EXCEPT ![fb] = b1]
                /\ num' = num + 1
                /\ exc' = exc
                /\ IF Len(jumps) = 0
                   THEN /\ las' = fpos
                        /\ fpos' = fpos
                        /\ pc' = IF fill_ret = "first" THEN "first_check" ELSE "resume_check"
                   ELSE /\ las' = las
                        /\ fpos' = BestJump(size, b1, jumps)
                        /\ pc' = "fill"
    /\ UNCHANGED <<size, start, splVars, nextId, fb, fill_ret, loopVars, genVars, rankVars,
                   verdict, result>>

\* solve, lines 237-252: the test of the first fill
FirstCheck ==
    /\ pc = "first_check"
    /\ LET full == Cell(size, heap[1], las) = size * size
           v == IF full THEN verify(size, heap[1]) ELSE "none"
       IN  /\ verdict' = v
           /\ IF v = "TypeError"
              THEN /\ Raise("TypeError")
                   /\ UNCHANGED <<result, boards>>
              ELSE IF v = "True"
              THEN /\ pc' = "returned"
                   /\ result' = [board |-> 1, iterations |-> 0, reroutes |-> 0]
                   /\ UNCHANGED <<exc, boards>>
              ELSE /\ pc' = "gen_start"
                   /\ boards' = << <<1, las>> >>
                   /\ UNCHANGED <<exc, result>>
    /\ UNCHANGED <<size, start, splVars, heap, nextId, fillVars, reroutes, i, reroute_count,
                   ti, genVars, rankVars>>

\* solve, lines 253-259: a pass of the while loop begins
GenStart ==
    /\ pc = "gen_start"
    /\ i < MaxGen \/ boards = <<>>
    /\ i' = IF i < MaxGen THEN i + 1 ELSE i
    /\ reroutes' = <<>>
    /\ ti' = 1
    /\ pc' = "trial"
    /\ UNCHANGED <<size, start, splVars, heap, nextId, fillVars, boards, reroute_count,
                   genVars, rankVars, verdict, result, exc>>

\* solve, lines 260-263: the next Trial of boards, and the start of reroute on it
\* (line 199)
TrialStart ==
    /\ pc = "trial"
    /\ IF ti > Len(boards)
       THEN /\ pc' = "gen_end"
            /\ UNCHANGED <<ends, ei>>
       ELSE /\ ends' = possible_ends(size, heap[boards[ti][1]], boards[ti][2])
            /\ ei' = 1
            /\ pc' = "cand"
    /\ UNCHANGED <<size, start, splVars, heap, nextId, fillVars, loopVars, cur, rankVars,
                   verdict, result, exc>>

\* reroute, lines 200-212: the next end of possible_ends, up to the call of get_rank
Candidate ==
    /\ pc = "cand"
    /\ LET brd == boards[ti][1]
           last == boards[ti][2]
       IN  IF ei > Len(ends)
           THEN /\ ti' = ti + 1
                /\ pc' = "trial"
                /\ UNCHANGED <<heap, nextId, ei, cur, rankVars, exc>>
           ELSE IF ends[ei] = last
           THEN /\ ei' = ei + 1
                /\ pc' = "cand"
                /\ UNCHANGED <<heap, nextId, ti, cur, rankVars, exc>>
           ELSE LET b == NewBoardId(brd)
                    r == Rerouted(size, heap[brd], ends[ei], last)
                IN  IF r.err
                    THEN /\ Raise("TypeError")
                         /\ UNCHANGED <<heap, nextId, ti, ei, cur, rankVars>>
                    ELSE /\ heap' = PutBoard(heap, b, r.board)
                         /\ nextId' = nextId + 1
                         /\ cur' = <<b, ends[ei]>>
                         /\ rk_last' = get_max(size, r.board)
                         /\ rk_fields' = empty_fields(size, r.board)
                         /\ rk_i' = 1
                         /\ rk_min' = Inf
                         /\ checked' = {get_max(size, r.board)}
                         /\ d' = 0
                         /\ pc' = "rank"
                         /\ UNCHANGED <<ti, ei, rank, exc>>
    /\ UNCHANGED <<size, start, splVars, fillVars, boards, reroutes, i, reroute_count, ends,
                   verdict, result>>

\* get_rank, lines 181-184, and shortest_path_length, lines 159-167: one pass
\* of the inner while loop, or its return and the next field, or the return of
\* get_rank
RankStep ==
    /\ pc = "rank"
    /\ IF rk_i > Len(rk_fields)
       THEN /\ rank' = rk_min
            /\ pc' = "dispatch"
            /\ UNCHANGED <<rk_i, rk_min, checked, d>>
       ELSE IF rk_fields[rk_i] \in checked
       THEN /\ rk_min' = MinRank(d, rk_min)
            /\ rk_i' = rk_i + 1
            /\ checked' = {rk_last}
            /\ d' = 0
            /\ pc' = "rank"
            /\ rank' = rank
       ELSE /\ checked' = Expand(size, checked)
            /\ d' = IF d < MaxDist THEN d + 1 ELSE d
            /\ pc' = "rank"
            /\ UNCHANGED <<rk_i, rk_min, rank>>
    /\ UNCHANGED <<size, start, splVars, heap, nextId, fillVars, loopVars, genVars, rk_last,
                   rk_fields, verdict, result, exc>>

\* mutant of Dispatch: the resumed fill is given the number after the
\* terminal's, deg1_brd[...] + 1
DispatchNextNumber ==
    /\ pc = "dispatch"
    /\ reroute_count' = reroute_count + 1
    /\ IF rank = 1
       THEN /\ fb' = cur[1]
            /\ fpos' = cur[2]
            /\ num' = Cell(size, heap[cur[1]], cur[2]) + 1
            /\ fill_ret' = "resumed"
            /\ pc' = "fill"
            /\ UNCHANGED <<reroutes, ei>>
       ELSE /\ reroutes' = Append(reroutes, cur)
            /\ ei' = ei + 1
            /\ pc' = "cand"
            /\ UNCHANGED <<fb, fpos, num, fill_ret>>
    /\ UNCHANGED <<size, start, splVars, heap, nextId, las, boards, i, ti, ends, cur,
                   rankVars, verdict, result, exc>>

\* solve, lines 264-288: the body of the loop over the candidates of reroute
Dispatch ==
    /\ pc = "dispatch"
    /\ reroute_count' = reroute_count + 1
    /\ IF rank = 1
       THEN /\ fb' = cur[1]
            /\ fpos' = cur[2]
            /\ num' = Cell(size, heap[cur[1]], cur[2])
            /\ fill_ret' = "resumed"
            /\ pc' = "fill"
            /\ UNCHANGED <<reroutes, ei>>
       ELSE /\ reroutes' = Append(reroutes, cur)
            /\ ei' = ei + 1
            /\ pc' = "cand"
            /\ UNCHANGED <<fb, fpos, num, fill_ret>>
    /\ UNCHANGED <<size, start, splVars, heap, nextId, las, boards, i, ti, ends, cur,
                   rankVars, verdict, result, exc>>

\* mutant of ResumeCheck: without "found_deg1_board = True; break", a resumed
\* fill that stops short lets the loop over the candidates go on
ResumeCheckContinues ==
    /\ pc = "resume_check"
    /\ IF Cell(size, heap[fb], las) = size * size
       THEN /\ pc' = "returned"
            /\ result' = [board |-> fb, iterations |-> i, reroutes |-> reroute_count]
            /\ ei' = ei
       ELSE /\ pc' = "cand"
            /\ result' = result
            /\ ei' = ei + 1
    /\ UNCHANGED <<size, start, splVars, heap, nextId, fillVars, boards, reroutes, i,
                   reroute_count, ti, ends, cur, rankVars, verdict, exc>>

\* solve, lines 273-286: the test of the resumed fill
ResumeCheck ==
    /\ pc = "resume_check"
    /\ IF Cell(size, heap[fb], las) = size * size
       THEN /\ pc' = "returned"
            /\ result' = [board |-> fb, iterations |-> i, reroutes |-> reroute_count]
       ELSE /\ pc' = "gen_end"
            /\ result' = result
    /\ UNCHANGED <<size, start, splVars, heap, nextId, fillVars, loopVars, genVars, rankVars,
                   verdict, exc>>

\* solve, lines 289-292: the loop over boards is left, boards = reroutes; the
\* boards no name refers to any more are gone
GenEnd ==
    /\ pc = "gen_end"
    /\ boards' = reroutes
    /\ heap' = [k \in (DOMAIN heap) \cap ({1} \cup TrialIds(reroutes)) |-> heap[k]]
    /\ pc' = "gen_start"
    /\ UNCHANGED <<size, start, splVars, nextId, fillVars, reroutes, i, reroute_count, ti,
                   genVars, rankVars, verdict, result, exc>>

Next ==
    \/ SolveCall
    \/ FillStep
    \/ FirstCheck
    \/ GenStart
    \/ TrialStart
    \/ Candidate
    \/ RankStep
    \/ Dispatch
    \/ ResumeCheck
    \/ GenEnd

Spec == Init /\ [][Next]_vars

\* ------------------------------------------------------- verify on its own
\* the subsets of S of at most k elements
RECURSIVE SubsetsUpTo(_, _)
SubsetsUpTo(S, k) ==
    IF k = 0 THEN {{}}
    ELSE LET prev == SubsetsUpTo(S, k - 1)
         IN  prev \cup {T \cup {x} : T \in prev, x \in S}

\* verify on every board of VerifyN x VerifyN squares with values
\* 1..VerifyMaxVal on at most VerifyMaxFilled squares and 0 elsewhere
InitVerify ==
    \E T \in SubsetsUpTo(Squares(VerifyN), VerifyMaxFilled) :
        \E f \in [T -> 1 .. VerifyMaxVal] :
            InitWith(VerifyN, <<0, 0>>, "verify",
                     [s \in Squares(VerifyN) |-> IF s \in T THEN f[s] ELSE 0])

\* a call verify(brd)
VerifyCall ==
    /\ pc = "verify"
    /\ verdict' = verify(size, heap[1])
    /\ pc' = "verified"
    /\ UNCHANGED <<size, start, splVars, heap, nextId, fillVars, loopVars, genVars, rankVars,
                   result, exc>>

NextVerify == VerifyCall

SpecVerify == InitVerify /\ [][NextVerify]_vars

\* ----------------------------------------- shortest_path_length on its own
\* shortest_path_length(a, b) and then shortest_path_length(b, a), for every
\* pair of squares a, b of every board of 1..DistN squares a side
InitDist ==
    \E n \in 1 .. DistN :
        \E a \in Squares(n), b \in Squares(n) :
            /\ size = n
            /\ start = <<0, 0>>
            /\ pc = "spl"
            /\ heap = (1 :> EmptyBoard(n))
            /\ nextId = 2
            /\ fb = 0
            /\ fpos = <<0, 0>>
            /\ num = 0
            /\ fill_ret = "none"
            /\ las = NoneVal
            /\ boards = <<>>
            /\ reroutes = <<>>
            /\ i = 0
            /\ reroute_count = 0
            /\ ti = 0
            /\ ends = <<>>
            /\ ei = 0
            /\ cur = <<>>
            /\ rk_last = <<0, 0>>
            /\ rk_fields = <<>>
            /\ rk_i = 0
            /\ rk_min = Inf
            /\ checked = {a}
            /\ d = 0
            /\ rank = Inf
            /\ verdict = "none"
            /\ result = NoResult
            /\ exc = "none"
            /\ x1y1 = a
            /\ x2y2 = b
            /\ ret = <<>>

\* shortest_path_length, lines 159-167: one pass of the while loop; after the
\* return of the first call the second call is made with the arguments
\* exchanged
SplStep ==
    /\ pc = "spl"
    /\ IF x2y2 \in checked
       THEN /\ ret' = Append(ret, d)
            /\ IF Len(ret) = 0
               THEN /\ x1y1' = x2y2
                    /\ x2y2' = x1y1
                    /\ checked' = {x2y2}
                    /\ d' = 0
                    /\ pc' = "spl"
               ELSE /\ pc' = "spl_done"
                    /\ UNCHANGED <<x1y1, x2y2, checked, d>>
       ELSE /\ checked' = Expand(size, checked)
            /\ d' = IF d < MaxDist THEN d + 1 ELSE d
            /\ UNCHANGED <<pc, x1y1, x2y2, ret>>
    /\ UNCHANGED <<size, start, heap, nextId, fillVars, loopVars, genVars, rk_last,
                   rk_fields, rk_i, rk_min, rank, verdict, result, exc>>

NextDist == SplStep

SpecDist == InitDist /\ [][NextDist]_vars

\* ------------------------------------------ the reversal of reroute on its own
\* the knight paths of len squares on the board of n squares a side, as
\* sequences of distinct squares
RECURSIVE PathsOfLen(_, _)
PathsOfLen(n, len) ==
    IF len = 1 THEN {<<s>> : s \in Squares(n)}
    ELSE UNION {{Append(p, q) : q \in Range(get_accessible_fields(n, p[Len(p)])) \ Range(p)} :
                   p \in PathsOfLen(n, len - 1)}

\* the board on which the squares of path hold 1, 2, ... in order
BoardOfPath(n, path) ==
    [s \in Squares(n) |->
        IF s \in Range(path) THEN CHOOSE k \in 1 .. Len(path) : path[k] = s ELSE 0]

\* reroute at "for end in possible_ends" with brd a board holding a knight
\* path, last its terminal and end any other square of the path
InitReverse ==
    \E n \in 3 .. RevN :
        \E len \in 2 .. RevLen :
            \E path \in PathsOfLen(n, len) :
                \E e \in 1 .. len - 1 :
                    /\ size = n
                    /\ start = path[1]
                    /\ pc = "cand"
                    /\ heap = (1 :> BoardOfPath(n, path))
                    /\ nextId = 2
                    /\ fb = 1
                    /\ fpos = path[len]
                    /\ num = len + 1
                    /\ fill_ret = "first"
                    /\ las = path[len]
                    /\ boards = << <<1, path[len]>> >>
                    /\ reroutes = <<>>
                    /\ i = 1
                    /\ reroute_count = 0
                    /\ ti = 1
                    /\ ends = << path[e] >>
                    /\ ei = 1
                    /\ cur = <<>>
                    /\ rk_last = <<0, 0>>
                    /\ rk_fields = <<>>
                    /\ rk_i = 0
                    /\ rk_min = Inf
                    /\ checked = {}
                    /\ d = 0
                    /\ rank = Inf
                    /\ verdict = "none"
                    /\ result = NoResult
                    /\ exc = "none"
                    /\ x1y1 = <<0, 0>>
                    /\ x2y2 = <<0, 0>>
                    /\ ret = <<>>

\* reroute, lines 200-212, for the one end
NextReverse == Candidate

SpecReverse == InitReverse /\ [][NextReverse]_vars

\* ------------------------------------------------------- what a tour is
\* one knight move apart
KnightAdj(p, q) ==
    LET dr == IF p[1] > q[1] THEN p[1] - q[1] ELSE q[1] - p[1]
        dc == IF p[2] > q[2] THEN p[2] - q[2] ELSE q[2] - p[2]
    IN  (dr = 1 /\ dc = 2) \/ (dr = 2 /\ dc = 1)

\* the squares of the board one knight move from p
KnightNeighbours(n, p) ==
    {q \in {<<p[1] + a, p[2] + b>> : a \in {-2, -1, 1, 2}, b \in {-2, -1, 1, 2}} :
        InGrid(n, q) /\ KnightAdj(p, q)}

Holders(brd, v) == {s \in DOMAIN brd : brd[s] = v}

Filled(brd) == {s \in DOMAIN brd : brd[s] # 0}

\* the values 1..k are each on exactly one square, i and i+1 one knight move apart
ChainUpTo(brd, k) ==
    /\ \A v \in 1 .. k : Cardinality(Holders(brd, v)) = 1
    /\ \A v \in 1 .. k - 1 :
           \A p \in Holders(brd, v), q \in Holders(brd, v + 1) : KnightAdj(p, q)

\* the non-zero values are exactly 1..k, k the number of filled squares, and
\* they form a knight path
PathContiguous(brd) == ChainUpTo(brd, Cardinality(Filled(brd)))


IsTour(brd) == PathContiguous(brd) /\ Filled(brd) = DOMAIN brd

MaxValue(brd) == CHOOSE m \in {brd[s] : s \in DOMAIN brd} : \A s \in DOMAIN brd : brd[s] <= m

ValidStart == InGrid(size, start)

Finished == {"returned", "raised"}

AllBoards == {heap[k] : k \in DOMAIN heap}

\* --------------------------------------------------------------- the claims

\* C1: whenever solve, called on an all-zero board with a start on the board,
\* returns, the returned board is a complete knight's tour: every value 1..N*N
\* is on exactly one square, consecutive values are one knight move apart, and
\* the start square holds 1 (first-pass return and return after a resumed fill).
ReturnedBoardIsTour ==
    (ValidStart /\ pc = "returned") =>
        /\ IsTour(heap[result.board])
        /\ heap[result.board][start] = 1

\* a return after the resumed fill of a rank-1 candidate
ReturnedAfterResume ==
    /\ ValidStart
    /\ pc = "returned"
    /\ result.iterations >= 1
    /\ fill_ret = "resumed"

ExhaustionEndsSearch ==
    [][(pc = "gen_end" /\ reroutes = <<>>) => pc' \in Finished]_vars

\* C4: for N = 3 and every start on the board, solve terminates (with a
\* failure outcome) after a bounded number of generations: the distance
\* computation of the rank returns, so it never counts more levels than the
\* board has squares, and no generation is started on an empty Trial list.
ThreeByThreeTerminates ==
    (size = 3 /\ ValidStart) =>
        /\ pc = "rank" => d < size * size
        /\ pc = "trial" => boards # <<>>

\* C5: every candidate board reroute emits for a Trial's board has the same
\* non-zero squares as that board and every value as often as that board has it.
RerouteKeepsSquaresAndValues ==
    pc = "dispatch" =>
        LET brd == heap[boards[ti][1]]
            b == heap[cur[1]]
        IN  /\ Filled(b) = Filled(brd)
            /\ \A v \in 1 .. size * size :
                   Cardinality(Holders(b, v)) = Cardinality(Holders(brd, v))

\* reroute has emitted a candidate that differs from the board it was given
CandidateEmitted ==
    /\ pc = "dispatch"
    /\ ValidStart
    /\ heap[cur[1]] # heap[boards[ti][1]]
    /\ Cardinality(Filled(heap[cur[1]])) >= 3

\* the board of a candidate that is not yet a Trial: the one reroute is
\* building or has just emitted, or the one a resumed fill is writing
WorkingIds ==
    IF pc \in {"rank", "dispatch"} THEN {cur[1]}
    ELSE IF pc \in {"fill", "resume_check"} /\ fill_ret = "resumed" THEN {fb}
    ELSE {}

\* no two Trials of a list name the same board
DistinctBoards(trials) == Cardinality(TrialIds(trials)) = Len(trials)

\* C6: no two Trials share a board (within a generation list, between the
\* current and the next generation, and with the candidate being worked on),
\* and no step changes the board of a Trial of the current or next generation.
TrialIsolation ==
    /\ [](/\ DistinctBoards(boards)
          /\ DistinctBoards(reroutes)
          /\ pc # "gen_start" => TrialIds(boards) \cap TrialIds(reroutes) = {}
          /\ WorkingIds \cap (TrialIds(boards) \cup TrialIds(reroutes)) = {})
    /\ [][\A k \in TrialIds(boards) \cup TrialIds(reroutes) :
              k \in DOMAIN heap' => heap'[k] = heap[k]]_vars

\* a resumed fill writes while the current generation has several Trials and
\* the next generation already has one
ResumedFillBesideTrials ==
    /\ pc = "fill"
    /\ fill_ret = "resumed"
    /\ num > Cell(size, heap[fb], cur[2]) + 1
    /\ Len(boards) >= 2
    /\ Len(reroutes) >= 1

\* the values 1..max of the board form one knight path: each once, i and i+1
\* one knight move apart
IsChain(brd) == ChainUpTo(brd, MaxValue(brd))

\* C7: verify returns true exactly for the boards whose values 1..max form one
\* unbroken knight-adjacent chain without repeats or gaps, and returns false,
\* not an error, for every other board.
VerifyDecidesChain ==
    pc = "verified" =>
        /\ verdict \in {"True", "False"}
        /\ verdict = "True" <=> IsChain(heap[1])

\* C8: a start row or column outside [0, N) makes solve fail before anything
\* is written: the board stays all zeros and the call ends in an error.
InvalidStartRejected ==
    ~ValidStart =>
        /\ heap[1] = EmptyBoard(size)
        /\ pc \in {"solve", "fill", "raised"}

\* C9: for N = 8 and start (3, 2) the first fill does not complete the board,
\* solve raises nothing, and the result it returns is a board covering all 64
\* squares, with a reroute count > 0 and an iteration count >= 1.
ExampleSolvedByRerouting ==
    (size = ExampleSize /\ start = <<ExampleRow, ExampleCol>>) =>
        /\ pc # "raised"
        /\ pc = "first_check" => Cell(size, heap[1], las) < size * size
        /\ pc = "returned" =>
               /\ IsTour(heap[result.board])
               /\ result.reroutes > 0
               /\ result.iterations >= 1

\* the run of the example has returned
ExampleReturned ==
    /\ size = ExampleSize
    /\ start = <<ExampleRow, ExampleCol>>
    /\ pc = "returned"
    /\ result.reroutes > 0

CentreOfFive == size = 5 /\ start = <<2, 2>>

\* C10 as stated: for N = 5 and start (2, 2) solve never returns a board
\* covering all 25 squares.
CentreOfFiveFails ==
    CentreOfFive => ~(pc = "returned" /\ Filled(heap[result.board]) = Squares(size))

\* C10, amended: for N = 5 and start (2, 2) solve succeeds on the first fill:
\* it never enters the generation loop and returns a complete knight's tour
\* with 0 iterations and 0 reroutes.
CentreOfFiveSolvedByFirstFill ==
    CentreOfFive =>
        /\ pc \in {"solve", "fill", "first_check", "returned"}
        /\ pc = "returned" =>
               /\ IsTour(heap[result.board])
               /\ heap[result.board][start] = 1
               /\ result.iterations = 0
               /\ result.reroutes = 0

CentreOfFiveReturned == CentreOfFive /\ pc = "returned"

\* the squares reached from the squares of S by at most k knight moves
RECURSIVE Within(_, _, _)
Within(n, S, k) ==
    IF k = 0 THEN S
    ELSE LET W == Within(n, S, k - 1)
         IN  W \cup {q \in Squares(n) : \E p \in W : KnightAdj(p, q)}

\* a and b are connected by knight moves on the board of n squares a side
Connected(n, a, b) == b \in Within(n, {a}, n * n)

\* the minimum number of knight moves from a to b, for connected a and b
KnightDistance(n, a, b) ==
    CHOOSE k \in 0 .. n * n :
        /\ b \in Within(n, {a}, k)
        /\ \A j \in 0 .. k - 1 : b \notin Within(n, {a}, j)

\* C11: for all squares a, b of a board that are connected by knight moves,
\* shortest_path_length(a, b) = shortest_path_length(b, a), both are the
\* minimum number of knight moves between a and b, and the value is 0 when
\* a = b; the board's contents play no part.
DistanceSymmetricAndMinimal ==
    (pc = "spl_done" /\ Connected(size, x1y1, x2y2)) =>
        /\ ret[1] = ret[2]
        /\ ret[1] = KnightDistance(size, x1y1, x2y2)
        /\ x1y1 = x2y2 => ret[1] = 0

\* both calls have returned for two squares several moves apart
DistanceBothWays ==
    /\ pc = "spl_done"
    /\ x1y1 # x2y2
    /\ ret[1] >= 4
    /\ ret[2] >= 4

\* the terminal of board b has an empty knight-neighbour: b has rank 1
HasRankOne(n, b) ==
    \E q \in KnightNeighbours(n, get_max(n, b)) : b[q] = 0

\* the candidate for entry e of possible_ends of Trial t of the current
\* generation
CandidateAt(t, e) ==
    LET brd == heap[boards[t][1]]
        last == boards[t][2]
    IN  Rerouted(size, brd, possible_ends(size, brd, last)[e], last)

\* The scan of the current generation as one pass: from Trial t on, with acc
\* the <<board, end>> pairs kept so far, up to the first candidate of rank 1
\* (stopped) or the end of the Trial list.
RECURSIVE ScanFrom(_, _)
ScanFrom(t, acc) ==
    IF t > Len(boards) THEN [stopped |-> FALSE, kept |-> acc]
    ELSE LET last == boards[t][2]
             pe == possible_ends(size, heap[boards[t][1]], last)
             ones == {e \in 1 .. Len(pe) :
                         /\ pe[e] # last
                         /\ ~CandidateAt(t, e).err
                         /\ HasRankOne(size, CandidateAt(t, e).board)}
             before == SelectSeq([e \in 1 .. Len(pe) |-> e],
                                 LAMBDA e : pe[e] # last /\ \A o \in ones : e < o)
             kept == acc \o [j \in 1 .. Len(before) |->
                                <<CandidateAt(t, before[j]).board, pe[before[j]]>>]
         IN  IF ones # {} THEN [stopped |-> TRUE, kept |-> kept]
             ELSE ScanFrom(t + 1, kept)

\* the <<board, end>> pairs of a list of Trials
TrialContents(trials) == [k \in 1 .. Len(trials) |-> <<heap[trials[k][1]], trials[k][2]>>]

\* C12 as stated: a generation step ends only after every Trial of the
\* current generation has been processed with every candidate examined (a
\* rank-1 candidate whose resumed fill stops short does not stop the scan).
ScanCoversGeneration ==
    pc = "gen_end" => ti > Len(boards)

\* C12, amended: the scan of a generation stops at its first rank-1 candidate.
\* When a generation step ends, the next generation's Trial list holds, in
\* order, exactly the candidates of rank # 1 that come before the first
\* rank-1 candidate of the generation (all of them when there is none); the
\* rank-1 candidate is not in the list, and the Trials and candidates after
\* it have not been examined.  Only without a rank-1 candidate is every Trial
\* processed.
ScanStopsAtFirstRankOne ==
    pc = "gen_end" =>
        LET scan == ScanFrom(1, <<>>)
        IN  /\ TrialContents(reroutes) = scan.kept
            /\ scan.stopped <=> ti <= Len(boards)
            /\ scan.stopped =>
                   /\ rank = 1
                   /\ cur[1] \notin TrialIds(reroutes)
                   /\ fb = cur[1]
                   /\ Cell(size, heap[fb], las) < size * size

\* a generation step has ended at an abandoned rank-1 candidate with Trials
\* of the generation left unprocessed and candidates already kept
ScanAbandoned ==
    /\ pc = "gen_end"
    /\ ti < Len(boards)
    /\ Len(reroutes) >= 1

\* every knight-neighbour of p on the board is filled
Blocked(n, brd, p) == \A q \in Squares(n) : KnightAdj(p, q) => brd[q] # 0

\* C13: for a board with terminal last holding k and a square end holding
\* e < k, the board reroute builds for end has e + k - v on every square whose
\* input value v lies in e..k (so last holds e and end holds k) and the input
\* value on every other square, for odd and for even k - e.
ReversalExact ==
    (pc = "rank" /\ cur # <<>>) =>
        LET brd == heap[boards[ti][1]]
            b == heap[cur[1]]
            k == brd[boards[ti][2]]
            e == brd[cur[2]]
        IN  /\ e < k
            /\ b[boards[ti][2]] = e
            /\ b[cur[2]] = k
            /\ \A s \in Squares(size) :
                   b[s] = IF brd[s] >= e /\ brd[s] <= k THEN e + k - brd[s] ELSE brd[s]

\* a blocked board has been reversed over an odd difference k - e of at least
\* 3: the cursors pass each other without meeting on a square
ReversedOddSpan ==
    /\ pc = "rank"
    /\ cur # <<>>
    /\ Blocked(size, heap[1], boards[ti][2])
    /\ (heap[1][boards[ti][2]] - heap[1][cur[2]]) % 2 = 1
    /\ heap[1][boards[ti][2]] - heap[1][cur[2]] >= 3

\* p is the one square holding the largest value of brd
Terminal(brd, p) == \A s \in DOMAIN brd : s # p => brd[s] < brd[p]

\* the least number of knight moves from the origin to an empty square of b,
\* F being the squares exactly k moves from the origin and V those at most k
\* moves from it; Inf - 1 when no empty square can be reached
RECURSIVE NearestEmptyFrom(_, _, _, _, _)
NearestEmptyFrom(n, b, F, V, k) ==
    IF \E q \in F : b[q] = 0 THEN k
    ELSE IF F = {} THEN Inf - 1
    ELSE LET F1 == (UNION {KnightNeighbours(n, p) : p \in F}) \ V
         IN  NearestEmptyFrom(n, b, F1, V \cup F1, k + 1)

\* the least knight distance from p to an empty square of b, Inf on a full board
NearestEmpty(n, b, p) ==
    IF \A q \in Squares(n) : b[q] # 0 THEN Inf ELSE NearestEmptyFrom(n, b, {p}, {p}, 0)

\* C14: in every tuple (board, end, rank) reroute emits, end is the one square
\* holding the largest value of board and rank is the least knight distance
\* from it to an empty square of board; the position stored with a Trial of
\* the next generation, and the position and number a resumed fill starts
\* from, are the terminal of the emitted board and its value.
EmittedTupleConsistent ==
    /\ [](pc = "dispatch" =>
              /\ Terminal(heap[cur[1]], cur[2])
              /\ rank = NearestEmpty(size, heap[cur[1]], cur[2]))
    /\ [][(reroutes' # reroutes /\ reroutes' # <<>>) =>
              LET t == reroutes'[Len(reroutes')]
              IN  /\ t = cur
                  /\ Terminal(heap'[t[1]], t[2])]_vars
    /\ [][(pc = "dispatch" /\ pc' = "fill") =>
              /\ Terminal(heap'[fb'], fpos')
              /\ num' = heap'[fb'][fpos']]_vars

\* reroute has emitted a board with several empty squares, the nearest of them
\* more than one move from the terminal
EmittedWithDistantEmpty ==
    /\ pc = "dispatch"
    /\ ValidStart
    /\ rank >= 2
    /\ Len(rk_fields) >= 3
    /\ Len(reroutes) >= 1

\* the offsets of a knight move in the order the fill tries them
OffsetOrder == << <<-1, 2>>, <<-2, 1>>, <<-2, -1>>, <<-1, -2>>,
                  <<1, -2>>, <<2, -1>>, <<2, 1>>, <<1, 2>> >>

\* the place in OffsetOrder of the move from p to q
OffsetPlace(p, q) ==
    CHOOSE k \in 1 .. Len(OffsetOrder) :
        q = <<p[1] + OffsetOrder[k][1], p[2] + OffsetOrder[k][2]>>

\* the empty squares of brd one knight move from p
EmptyNeighbours(n, brd, p) == {q \in KnightNeighbours(n, p) : brd[q] = 0}

\* the number of empty knight-neighbours of q on brd
Degree(n, brd, q) == Cardinality(EmptyNeighbours(n, brd, q))

\* C15: a step of wandorf_fill writes the current square and moves to the
\* empty knight-neighbour with the fewest empty knight-neighbours of its own
\* on the board as written, the first in the offset order among those that
\* tie; it returns exactly when the current square has no empty
\* knight-neighbour, and the returned square then holds the highest value of
\* the board.
WarnsdorffStep ==
    [][(pc = "fill" /\ pc' # "raised") =>
          LET written == heap'[fb]
              open == EmptyNeighbours(size, written, fpos)
          IN  /\ written = SetCell(size, heap[fb], fpos, num)
              /\ open = {} <=> pc' \in {"first_check", "resume_check"}
              /\ open = {} =>
                     /\ las' = fpos
                     /\ Terminal(written, Norm(size, las'))
              /\ open # {} =>
                     /\ pc' = "fill"
                     /\ fpos' \in open
                     /\ \A q \in open :
                            \/ Degree(size, written, fpos') < Degree(size, written, q)
                            \/ /\ Degree(size, written, fpos') = Degree(size, written, q)
                               /\ OffsetPlace(fpos, fpos') <= OffsetPlace(fpos, q)]_vars

\* the fill, some steps on, stands on a square from which two empty
\* knight-neighbours tie for the fewest empty knight-neighbours, and the first
\* of them in the offset order is not the first empty neighbour in that order
FillFacesTie ==
    /\ pc = "fill"
    /\ ValidStart
    /\ num >= 4
    /\ LET written == SetCell(size, heap[fb], fpos, num)
           open == EmptyNeighbours(size, written, fpos)
       IN  \E q1 \in open, q2 \in open, q3 \in open :
               /\ q1 # q2
               /\ Degree(size, written, q1) = Degree(size, written, q2)
               /\ \A q \in open : Degree(size, written, q1) <= Degree(size, written, q)
               /\ Degree(size, written, q3) > Degree(size, written, q1)
               /\ OffsetPlace(fpos, q3) < OffsetPlace(fpos, q1)
               /\ OffsetPlace(fpos, q3) < OffsetPlace(fpos, q2)

\* the candidate reroute emitted for the end cur[2] of the Trial being
\* processed, as it was before any fill was resumed on it
EmittedCandidate == Rerouted(size, heap[boards[ti][1]], cur[2], boards[ti][2]).board

\* C16: the fill resumed on a candidate of rank 1, from the candidate's
\* terminal with the terminal's value k, leaves every filled square of the
\* candidate with its value, and by the time it returns has written k + 1 on
\* a square that was empty and is one knight move from the terminal, so that
\* more squares are filled than before.
ResumedFillExtends ==
    (fill_ret = "resumed" /\ pc \in {"fill", "resume_check", "returned"}) =>
        LET cand == EmittedCandidate
            k == cand[cur[2]]
        IN  /\ rank = 1
            /\ fb = cur[1]
            /\ Terminal(cand, cur[2])
            /\ \A s \in Squares(size) : cand[s] # 0 => heap[fb][s] = cand[s]
            /\ pc # "fill" =>
                   /\ \E q \in KnightNeighbours(size, cur[2]) :
                          cand[q] = 0 /\ heap[fb][q] = k + 1
                   /\ Cardinality(Filled(heap[fb])) > Cardinality(Filled(cand))

\* a resumed fill has returned after extending the candidate by several
\* squares without covering the board
ResumedFillStoppedShort ==
    /\ pc = "resume_check"
    /\ ValidStart
    /\ heap[fb][las] >= EmittedCandidate[cur[2]] + 2
    /\ heap[fb][las] < size * size

\* the Trial (board, last) is blocked: last is the one square holding the
\* board's largest value and every knight-neighbour of last is filled
BlockedTrial(brd, last) ==
    /\ InGrid(size, last)
    /\ Terminal(brd, last)
    /\ Blocked(size, brd, last)

\* C17: every Trial on which reroute is called is blocked; every entry of
\* possible_ends is then a square of the board, and reroute ends with a
\* candidate for each of them, never in an error for a square that is missing.
RerouteOnBlockedTrials ==
    /\ (pc = "cand" =>
           /\ BlockedTrial(heap[boards[ti][1]], boards[ti][2])
           /\ \A k \in 1 .. Len(ends) : ends[k] \in Squares(size))
    /\ exc # "TypeError"

\* On the runs from a start on the board the statement of C17 holds: the
\* Trials are blocked, possible_ends holds squares only and reroute raises
\* nothing.
RerouteSoundFromBoardStart == ValidStart => RerouteOnBlockedTrials

====
